---- MODULE Spec2Model ----
(***************************************************************************)
(* A model of the snowflake ID generator (src/snowflake.go): construction  *)
(* (New), ID production (Snowflake.ID), the ID field accessors and the     *)
(* base32 / base58 decoders.                                               *)
(*                                                                         *)
(* An int64 is modelled exactly, as the set of the bit positions (0..63)   *)
(* that are 1 in its two's-complement form, so that shifts, masks and      *)
(* overflow behave as they do in Go.  A uint8 is a number in 0..255 and    *)
(* its arithmetic is taken modulo 256.                                     *)
(***************************************************************************)
EXTENDS Integers, Sequences, FiniteSets, TLC

\* ---------------------------------------------------------------- constants

MaxBits == 64

MaxNotTimeBits == 22

\* ------------------------------------------------------------------- bounds

\* wall-clock values (ms) the model lets the clock take: 0..MaxNow
MaxNow == 2

\* number of goroutines calling ID() on the one instance
NumCallers == 2

\* number of ID() calls that may return in one behaviour
MaxCalls == 3

\* construction inputs: clock values 0..MaxNewNow, small bit widths
\* 0..MaxNewBits and small node ids 0..MaxNewNode (each beside edge values)
MaxNewNow == 1

MaxNewBits == 2

MaxNewNode == 4

\* longest byte slice handed to a decoder
MaxLen == 2

\* largest seqBits option of the small-layout generators that produce IDs
MaxGenSeqBits == 1

\* ------------------------------------------------------- int64 and uint8

Bits == 0 .. (MaxBits - 1)

SignBit == MaxBits - 1

\* the int64 of a small natural number
W(n) == {i \in 0 .. 30 : (n \div (2 ^ i)) % 2 = 1}

Zero == {}

MinusOne == Bits

MinInt64 == {SignBit}

MaxInt64 == Bits \ {SignBit}

\* uint8 arithmetic wraps modulo 256
U8(n) == n % 256

\* x << n on int64 (n is a uint8 count; Go yields 0 once n >= 64)
Shl(x, n) == {i + n : i \in x} \cap Bits

\* x >> n on int64: arithmetic shift, the sign bit is replicated
Shr(x, n) ==
    ({i - n : i \in x} \cap Bits)
      \cup (IF SignBit \in x THEN {i \in Bits : i >= MaxBits - n} ELSE {})

And(x, y) == x \cap y

Or(x, y) == x \cup y

Xor(x, y) == (x \ y) \cup (y \ x)

\* every int64
Words == SUBSET Bits

\* x + y on int64, wrapping: the carries are added until none is left
AddCarries[x \in Words, y \in Words] ==
    IF y = {} THEN x ELSE AddCarries[Xor(x, y), Shl(And(x, y), 1)]

Add(x, y) == AddCarries[x, y]

\* x - y on int64, wrapping: the borrows are subtracted until none is left
SubBorrows[x \in Words, y \in Words] ==
    IF y = {} THEN x ELSE SubBorrows[Xor(x, y), Shl(y \ x, 1)]

Sub(x, y) == SubBorrows[x, y]

Max(S) == CHOOSE m \in S : \A k \in S : k <= m

\* x < y as signed 64-bit integers
Lt(x, y) ==
    /\ x # y
    /\ IF (SignBit \in x) # (SignBit \in y)
       THEN SignBit \in x
       ELSE Max(Xor(x, y)) \in y

Gt(x, y) == Lt(y, x)

\* ------------------------------------------------------------------ state

VARIABLES
    now,          \* the wall clock: time.Now(), in ms since the Unix epoch
    env,          \* the SNOWFLAKE_* environment variables
    ip,           \* the host's private IPv4 address as an integer, or NoIP
    options,      \* the Options handed to New, after the Option functions ran
    sf,           \* the Snowflake instance (NilSf before and after a failed New)
    err,          \* what New returned: "pending" before it ran, "nil" on success
    mu,           \* sf.mu: the caller holding the lock, 0 when free
    pc,           \* pc[p]: where caller p is inside ID()
    elapsedTime,  \* elapsedTime[p]: the local variable of caller p's ID() call
    id,           \* id[p]: the local variable of caller p's ID() call
    issued,       \* the IDs returned so far, in the order they were returned
    input,        \* the byte slice handed to a decoder
    parsed,       \* the (ID, error) pair a decoder returned, and which decoder
    target,       \* the ID a codec operation is applied to (the receiver f)
    origin,       \* the wall clock, as an int64 of ms, when the behaviour began
    regressed,    \* whether the wall clock has been set back so far
    peer          \* a second generator: its instance, its one caller's position
                  \* and clock reading, and the IDs it has returned

vars == <<now, env, ip, options, sf, err, mu, pc, elapsedTime, id, issued, input, parsed, target, origin, regressed, peer>>

Callers == 1 .. NumCallers

\* An optional value (an environment variable, the private address) is the
\* empty set when absent and the one-element set of its value when present.
\* An environment variable that does not parse is treated by the code exactly
\* as an absent one.
Unset == {}

Some(v) == {v}

Get(x) == CHOOSE v \in x : TRUE

NoIP == Unset

\* an environment in which no SNOWFLAKE_* variable is set
NoEnv == [startTime |-> Unset, node |-> Unset, nodeBits |-> Unset, seqBits |-> Unset]

\* no decoder has run
NoParse == [id |-> Zero, err |-> "pending", by |-> "none"]

\* the zero-valued Options and Snowflake structs
ZeroOptions == [startTime |-> Zero, node |-> Zero, nodeBits |-> 0, seqBits |-> 0]

NilSf == [opts |-> ZeroOptions, time |-> Zero, node |-> Zero, seq |-> Zero,
          nodeMax |-> Zero, nodeMask |-> Zero, seqMask |-> Zero]

\* no second generator
NoPeer == [sf |-> NilSf, pc |-> "idle", elapsedTime |-> Zero, issued |-> <<>>]

\* --------------------------------------------------------- the accessors

NotTimeBits(o) == U8(o.nodeBits + o.seqBits)

\* a width that counts the sign bit into the timestamp field
Mutant_TimeBits(o) == U8(MaxBits - o.nodeBits - o.seqBits)

TimeBits(o) == U8(MaxBits - o.nodeBits - o.seqBits - 1)

MaxTime(o) == Xor(MinusOne, Shl(MinusOne, TimeBits(o)))

\* epoch(t): the int64 millisecond value of a time, t being counted in ms
\* from the behaviour's first clock value (time.Now() is never the zero time)
Epoch(t) == Add(origin, W(t))

\* sf.elapsedTime(): epoch(time.Now()) - sf.opts.startTime
ElapsedTimeAt(clock, o) == Sub(Epoch(clock), o.startTime)

\* ----------------------------------------------------------- construction

\* initBits: zero-valued bit widths are taken from the environment, then the
\* masks are derived
InitBits(o, e) ==
    LET nb == IF o.nodeBits = 0 /\ e.nodeBits # Unset THEN Get(e.nodeBits) ELSE o.nodeBits
        sb == IF o.seqBits = 0 /\ e.seqBits # Unset THEN Get(e.seqBits) ELSE o.seqBits
        nodeMax == Xor(MinusOne, Shl(MinusOne, nb))
    IN  [opts     |-> [o EXCEPT !.nodeBits = nb, !.seqBits = sb],
         nodeMax  |-> nodeMax,
         nodeMask |-> Shl(nodeMax, sb),
         seqMask  |-> Xor(MinusOne, Shl(MinusOne, sb))]

\* initStartTime: a zero start time is taken from the environment
InitStartTime(o, e) ==
    IF o.startTime = Zero /\ e.startTime # Unset
    THEN [o EXCEPT !.startTime = Get(e.startTime)]
    ELSE o

\* ip2Node: the private address masked into the node space
Ip2Node(addr, nodeMax) == And(addr, nodeMax)

\* a node initialisation that reads SNOWFLAKE_NODE whatever the option holds
Mutant_InitNode(o, e, addr, nodeMax) ==
    IF e.node # Unset THEN And(Get(e.node), nodeMax)
    ELSE IF o.node = Zero /\ addr # NoIP THEN Ip2Node(Get(addr), nodeMax)
    ELSE o.node

\* initNode: a zero node is taken from the environment, else from the address
InitNode(o, e, addr, nodeMax) ==
    IF o.node = Zero
    THEN IF e.node # Unset THEN And(Get(e.node), nodeMax)
         ELSE IF addr # NoIP THEN Ip2Node(Get(addr), nodeMax)
         ELSE o.node
    ELSE o.node

\* a node check that forgets the negative node ids
Mutant_NodeOutOfRange(nd, nodeMax) == Gt(nd, nodeMax)

\* sf.node < 0 || sf.node > sf.nodeMax
NodeOutOfRange(nd, nodeMax) == Lt(nd, Zero) \/ Gt(nd, nodeMax)

\* New: the error it returns and the instance it built
NewSf(o, e, addr, clock) ==
    LET b  == InitBits(o, e)
        o2 == InitStartTime(b.opts, e)
        nd == InitNode(o2, e, addr, b.nodeMax)
    IN  IF NotTimeBits(b.opts) > MaxNotTimeBits
        THEN [err |-> "bits", sf |-> NilSf]
        ELSE IF Lt(ElapsedTimeAt(clock, o2), Zero)
        THEN [err |-> "startTime", sf |-> NilSf]
        ELSE IF NodeOutOfRange(nd, b.nodeMax)
        THEN [err |-> "node", sf |-> NilSf]
        ELSE [err |-> "nil",
              sf  |-> [opts |-> o2, time |-> Zero, node |-> nd, seq |-> Zero,
                       nodeMax |-> b.nodeMax, nodeMask |-> b.nodeMask,
                       seqMask |-> b.seqMask]]

\* ----------------------------------------------------------- ID production

One == W(1)

\* an assembly that shifts the node by the node width, not the sequence width
Mutant_MakeID(g) ==
    Or(Or(Shl(g.time, U8(g.opts.nodeBits + g.opts.seqBits)),
          Shl(g.node, g.opts.nodeBits)),
       g.seq)

\* the ID assembled from the instance's time, node and sequence
MakeID(g) ==
    Or(Or(Shl(g.time, U8(g.opts.nodeBits + g.opts.seqBits)),
          Shl(g.node, g.opts.seqBits)),
       g.seq)

\* calls begun and not yet returned
InFlight == {p \in Callers : pc[p] # "idle"}

\* a goroutine calls sf.ID()
Call(p) ==
    /\ err = "nil"
    /\ pc[p] = "idle"
    /\ Len(issued) + Cardinality(InFlight) < MaxCalls
    /\ pc' = [pc EXCEPT ![p] = "lock"]
    /\ UNCHANGED <<now, env, ip, options, sf, err, mu, elapsedTime, id, issued, input, parsed, target, origin, regressed, peer>>

\* a lock that is granted while another caller holds it
Mutant_Lock(p) ==
    /\ pc[p] = "lock"
    /\ mu' = p
    /\ pc' = [pc EXCEPT ![p] = "elapsed"]
    /\ UNCHANGED <<now, env, ip, options, sf, err, elapsedTime, id, issued, input, parsed, target, origin, regressed, peer>>

\* sf.mu.Lock()
Lock(p) ==
    /\ pc[p] = "lock"
    /\ mu = 0
    /\ mu' = p
    /\ pc' = [pc EXCEPT ![p] = "elapsed"]
    /\ UNCHANGED <<now, env, ip, options, sf, err, elapsedTime, id, issued, input, parsed, target, origin, regressed, peer>>

\* elapsedTime := sf.elapsedTime()
Elapsed(p) ==
    /\ pc[p] = "elapsed"
    /\ elapsedTime' = [elapsedTime EXCEPT ![p] = ElapsedTimeAt(now, sf.opts)]
    /\ pc' = [pc EXCEPT ![p] = "arbitrate"]
    /\ UNCHANGED <<now, env, ip, options, sf, err, mu, id, issued, input, parsed, target, origin, regressed, peer>>

\* the sequence after the if / else on sf.time == elapsedTime
NextSeq(g, elapsed) ==
    IF g.time = elapsed THEN And(Add(g.seq, One), g.seqMask) ELSE Zero

\* a branch that writes the new sequence into the node as well
Mutant_Arbitrate(p) ==
    /\ pc[p] = "arbitrate"
    /\ sf' = [sf EXCEPT !.seq = NextSeq(sf, elapsedTime[p]),
                         !.node = NextSeq(sf, elapsedTime[p])]
    /\ pc' = [pc EXCEPT ![p] =
                IF sf.time = elapsedTime[p] /\ sf'.seq = Zero THEN "spin" ELSE "assemble"]
    /\ UNCHANGED <<now, env, ip, options, err, mu, elapsedTime, id, issued, input, parsed, target, origin, regressed, peer>>

\* if sf.time == elapsedTime { sf.seq = (sf.seq + 1) & sf.seqMask ... } else { sf.seq = 0 }
Arbitrate(p) ==
    /\ pc[p] = "arbitrate"
    /\ sf' = [sf EXCEPT !.seq = NextSeq(sf, elapsedTime[p])]
    /\ pc' = [pc EXCEPT ![p] =
                IF sf.time = elapsedTime[p] /\ sf'.seq = Zero THEN "spin" ELSE "assemble"]
    /\ UNCHANGED <<now, env, ip, options, err, mu, elapsedTime, id, issued, input, parsed, target, origin, regressed, peer>>

\* the condition of the wait loop: for sf.time > elapsedTime
Waiting(g, elapsed) == Gt(g.time, elapsed)

\* one test of the wait loop, and its body when the test holds
Spin(p) ==
    /\ pc[p] = "spin"
    /\ IF Waiting(sf, elapsedTime[p])
       THEN /\ elapsedTime' = [elapsedTime EXCEPT ![p] = ElapsedTimeAt(now, sf.opts)]
            /\ pc' = pc
       ELSE /\ pc' = [pc EXCEPT ![p] = "assemble"]
            /\ elapsedTime' = elapsedTime
    /\ UNCHANGED <<now, env, ip, options, sf, err, mu, id, issued, input, parsed, target, origin, regressed, peer>>

\* an assembly that stores the time gone by since the stored one
Mutant_Assemble(p) ==
    /\ pc[p] = "assemble"
    /\ sf' = [sf EXCEPT !.time = Sub(elapsedTime[p], sf.time)]
    /\ id' = [id EXCEPT ![p] = MakeID(sf')]
    /\ pc' = [pc EXCEPT ![p] = "unlock"]
    /\ UNCHANGED <<now, env, ip, options, err, mu, elapsedTime, issued, input, parsed, target, origin, regressed, peer>>

\* sf.time = elapsedTime; id := sf.time<<(nodeBits+seqBits) | sf.node<<seqBits | sf.seq
Assemble(p) ==
    /\ pc[p] = "assemble"
    /\ sf' = [sf EXCEPT !.time = elapsedTime[p]]
    /\ id' = [id EXCEPT ![p] = MakeID(sf')]
    /\ pc' = [pc EXCEPT ![p] = "unlock"]
    /\ UNCHANGED <<now, env, ip, options, err, mu, elapsedTime, issued, input, parsed, target, origin, regressed, peer>>

\* a return that leaves the mutex locked
Mutant_Unlock(p) ==
    /\ pc[p] = "unlock"
    /\ mu' = mu
    /\ issued' = Append(issued, [id |-> id[p], by |-> p, time |-> sf.time, seq |-> sf.seq])
    /\ pc' = [pc EXCEPT ![p] = "idle"]
    /\ UNCHANGED <<now, env, ip, options, sf, err, elapsedTime, id, input, parsed, target, origin, regressed, peer>>

\* sf.mu.Unlock(); return ID(id)
Unlock(p) ==
    /\ pc[p] = "unlock"
    /\ mu' = 0
    /\ issued' = Append(issued, [id |-> id[p], by |-> p, time |-> sf.time, seq |-> sf.seq])
    /\ pc' = [pc EXCEPT ![p] = "idle"]
    /\ UNCHANGED <<now, env, ip, options, sf, err, elapsedTime, id, input, parsed, target, origin, regressed, peer>>

\* one step of caller p's ID() call
IDStep(p) ==
    \/ Call(p)
    \/ Lock(p)
    \/ Elapsed(p)
    \/ Arbitrate(p)
    \/ Spin(p)
    \/ Assemble(p)
    \/ Unlock(p)

\* ----------------------------------------------------------- the wall clock

\* the clock reaches the next millisecond
Tick ==
    /\ now < MaxNow
    /\ now' = now + 1
    /\ UNCHANGED <<env, ip, options, sf, err, mu, pc, elapsedTime, id, issued, input, parsed, target, origin, regressed, peer>>

\* the clock is set back (NTP step, manual change) by d ms
ClockBack ==
    /\ \E d \in 1 .. MaxNow :
          /\ now - d >= 0
          /\ now' = now - d
    /\ regressed' = TRUE
    /\ UNCHANGED <<env, ip, options, sf, err, mu, pc, elapsedTime, id, issued, input, parsed, target, origin, peer>>

\* ------------------------------------------------------- the specifications

\* small layouts, whose sequence space is used up within a few calls
GenOptions ==
    [startTime : {One}, node : {One}, nodeBits : {1}, seqBits : 0 .. MaxGenSeqBits]

\* a generator New built from one of the options in O, ready to produce IDs
InitWith(O) ==
    /\ origin = Zero
    /\ regressed = FALSE
    /\ peer = NoPeer
    /\ target = Zero
    /\ now \in 0 .. MaxNow
    /\ env = NoEnv
    /\ ip = NoIP
    /\ options \in O
    /\ err = NewSf(options, env, ip, now).err
    /\ err = "nil"
    /\ sf = NewSf(options, env, ip, now).sf
    /\ mu = 0
    /\ pc = [p \in Callers |-> "idle"]
    /\ elapsedTime = [p \in Callers |-> Zero]
    /\ id = [p \in Callers |-> Zero]
    /\ issued = <<>>
    /\ input = <<>>
    /\ parsed = NoParse

Init == InitWith(GenOptions)

\* any number of callers, a clock that may be set back
Next ==
    \/ \E p \in Callers : IDStep(p)
    \/ Tick
    \/ ClockBack

Spec == Init /\ [][Next]_vars

\* any number of callers, a clock that never moves backward
NextConc ==
    \/ \E p \in Callers : IDStep(p)
    \/ Tick

SpecConc == Init /\ [][NextConc]_vars

\* the steps caller p takes while it holds the mutex
Locked(p) ==
    \/ Elapsed(p)
    \/ Arbitrate(p)
    \/ Spin(p)
    \/ Assemble(p)
    \/ Unlock(p)

\* the concurrent callers under a scheduler that keeps every goroutine running,
\* a mutex that does not starve a waiter, and a clock that keeps advancing
SpecLive ==
    /\ Init
    /\ [][NextConc]_vars
    /\ \A p \in Callers : WF_vars(Locked(p)) /\ SF_vars(Lock(p))
    /\ WF_vars(Tick)

\* one caller, a clock that may be set back
NextSkew ==
    \/ IDStep(1)
    \/ Tick
    \/ ClockBack

SpecSkew == Init /\ [][NextSkew]_vars

\* one caller, a clock that never moves backward
NextMono ==
    \/ IDStep(1)
    \/ Tick

\* the layouts of the sequential runs: the small ones, the default one, the
\* one of the package's tests, and the two that give all 22 bits to one field
Layouts == {<<10, 12>>, <<5, 12>>, <<MaxNotTimeBits, 0>>, <<0, MaxNotTimeBits>>}

\* a start time so far back that the clock value 1 lies MaxTime ms after it
LateStart(l) == Sub(One, MaxTime([nodeBits |-> l[1], seqBits |-> l[2]]))

WideOptions ==
    UNION {[startTime : {One, LateStart(l)}, node : {Zero, One, W(12)},
            nodeBits : {l[1]}, seqBits : {l[2]}] : l \in Layouts}

LateGenOptions ==
    {[o EXCEPT !.startTime = LateStart(<<o.nodeBits, o.seqBits>>)] : o \in GenOptions}

InitMono == InitWith(GenOptions \cup LateGenOptions \cup WideOptions)

SpecMono == InitMono /\ [][NextMono]_vars

\* -------------------------------------------------- properties of ID production

Returned == 1 .. Len(issued)

\* C1: with one caller and a clock that never moves backward, the IDs returned
\* by any sequence of ID() calls are pairwise distinct, however many of the
\* calls fall in one millisecond.
C1_SequentialDistinct ==
    \A i, j \in Returned : i < j => issued[i].id # issued[j].id

\* C2: IDs returned to different callers of the same instance, under any
\* interleaving of their calls and of clock ticks, are distinct.
C2_ConcurrentDistinct ==
    \A i, j \in Returned :
        issued[i].by # issued[j].by => issued[i].id # issued[j].id

\* C3: with a clock that never moves backward, every ID returned is strictly
\* greater, as a signed 64-bit integer, than every ID returned before it.
C3_StrictlyIncreasing ==
    \A i, j \in Returned : i < j => Lt(issued[i].id, issued[j].id)

\* C4: a call whose sequence wrapped to 0 leaves the wait only once the elapsed
\* time strictly exceeds the stored last time, so that the ID it goes on to
\* assemble carries a later timestamp than the previous ID.
C4_WrapWaitsForNextMs ==
    [][\A p \in Callers :
          pc[p] = "spin" /\ pc'[p] = "assemble" => Gt(elapsedTime[p], sf.time)]_vars

\* C5: no two ID() calls on the instance return an equal ID, whatever the wall
\* clock does between the calls.
C5_NeverEqual ==
    Cardinality({issued[i].id : i \in Returned}) = Len(issued)

\* ------------------------------------------------ construction, as operation

\* DefaultStartTime = 1288834974657 = 1229128 * 2^20 + 852929
DefaultStartTime == Or(Shl(W(1229128), 20), W(852929))

DefaultNodeBits == 10

DefaultSeqBits == 12

\* defaultOptions(): what New() starts from, and keeps when no option is given
defaultOptions ==
    [startTime |-> DefaultStartTime, node |-> Zero,
     nodeBits |-> DefaultNodeBits, seqBits |-> DefaultSeqBits]

\* New() and New(Node(n)): the defaults, with the node unset, 1 or 1023
DefaultsWithNode == {[defaultOptions EXCEPT !.node = n] : n \in {Zero, One, W(1023)}}

\* a wall clock later than the default start time, by 2^38 ms
Today == Add(DefaultStartTime, Shl(One, 38))

\* uint8 bit widths tried: small ones, those around the 22-bit limit, those
\* around the word size, and large ones whose sum leaves the uint8 range
U8Samples ==
    (0 .. MaxNewBits)
      \cup {MaxNotTimeBits - 1, MaxNotTimeBits, MaxNotTimeBits + 1}
      \cup {MaxBits - 1, MaxBits, 200, 254, 255}

\* int64 node ids tried
NodeSamples ==
    {W(n) : n \in 0 .. MaxNewNode} \cup {MinusOne, MaxInt64, Shl(One, MaxNotTimeBits)}

\* int64 start times tried: around the clock values, and the extremes
StartTimeSamples ==
    {W(t) : t \in 0 .. MaxNewNow + 1} \cup {MinInt64, MaxInt64}

NewOptions ==
    [startTime : StartTimeSamples, node : NodeSamples,
     nodeBits : U8Samples, seqBits : U8Samples]

\* an environment in which every SNOWFLAKE_* variable is set
FullEnv ==
    [startTime |-> Some(One), node |-> Some(W(5)), nodeBits |-> Some(2), seqBits |-> Some(3)]

\* the environment and private address New may find
Hosts ==
    {[env |-> NoEnv, ip |-> NoIP],
     [env |-> NoEnv, ip |-> Some(W(6))],
     [env |-> FullEnv, ip |-> NoIP]}

InitNew ==
    /\ \/ origin = Zero /\ options \in NewOptions
       \/ origin = Today /\ options \in DefaultsWithNode
    /\ regressed = FALSE
    /\ peer = NoPeer
    /\ target = Zero
    /\ now \in 0 .. MaxNewNow
    /\ \E h \in Hosts : env = h.env /\ ip = h.ip
    /\ err = "pending"
    /\ sf = NilSf
    /\ mu = 0
    /\ pc = [p \in Callers |-> "idle"]
    /\ elapsedTime = [p \in Callers |-> Zero]
    /\ id = [p \in Callers |-> Zero]
    /\ issued = <<>>
    /\ input = <<>>
    /\ parsed = NoParse

\* sf, err := New(opts...)
New ==
    /\ err = "pending"
    /\ err' = NewSf(options, env, ip, now).err
    /\ sf' = NewSf(options, env, ip, now).sf
    /\ UNCHANGED <<now, env, ip, options, mu, pc, elapsedTime, id, issued, input, parsed, target, origin, regressed, peer>>

NextNew == New

SpecNew == InitNew /\ [][NextNew]_vars

\* the options in force once the zero-valued ones were read from the environment
Effective == InitStartTime(InitBits(options, env).opts, env)

\* C6: whenever the arithmetic sum of the two bit widths exceeds 22, New returns
\* an error and no generator.
C6_WideLayoutRejected ==
    err # "pending" /\ Effective.nodeBits + Effective.seqBits > MaxNotTimeBits
        => err # "nil"

\* node lies in [0, 2^nodeBits - 1]
NodeFits(node, nodeBits) == SignBit \notin node /\ node \subseteq 0 .. (nodeBits - 1)

\* C7: a configured node id outside [0, 2^nodeBits - 1] makes New return an error
\* and no generator; one inside it, with a layout of at most 22 bits and a start
\* time New accepts, makes New succeed.
C7_NodeRange ==
    err # "pending" =>
        /\ ~NodeFits(options.node, Effective.nodeBits) => err # "nil" /\ sf = NilSf
        /\ /\ NodeFits(options.node, Effective.nodeBits)
           /\ Effective.nodeBits + Effective.seqBits <= MaxNotTimeBits
           /\ err # "startTime"
           => err = "nil"

\* C7 witness: New has rejected an out-of-range node and accepted an in-range one
C7_Witness_Rejected ==
    /\ err = "node"
    /\ ~NodeFits(options.node, Effective.nodeBits)
    /\ Effective.nodeBits + Effective.seqBits <= MaxNotTimeBits

\* C13: New() with no option and no SNOWFLAKE_* variable builds the default
\* layout of 43 timestamp bits, 10 node bits and 10 sequence bits: TimeBits() is
\* 43, MaxNode() 1023 and MaxSeq() 1023.
C13_DefaultLayout ==
    err = "nil" /\ options = defaultOptions /\ env = NoEnv =>
        /\ TimeBits(sf.opts) = 43
        /\ sf.nodeMax = W(1023)
        /\ sf.seqMask = W(1023)

\* C21: the environment and the private address are consulted only for the
\* options left at zero: a generator New returns has the node, the start time,
\* the node bits and the sequence bits of every option given a nonzero value,
\* whatever the SNOWFLAKE_* variables hold.
C21_NonzeroOptionsKept ==
    err = "nil" =>
        /\ options.node # Zero => sf.node = options.node
        /\ options.startTime # Zero => sf.opts.startTime = options.startTime
        /\ options.nodeBits # 0 => sf.opts.nodeBits = options.nodeBits
        /\ options.seqBits # 0 => sf.opts.seqBits = options.seqBits

\* New(Node(1023)) succeeded with every SNOWFLAKE_* variable set to another value
C21_Witness_EnvIgnored ==
    /\ err = "nil"
    /\ env = FullEnv
    /\ options = [defaultOptions EXCEPT !.node = W(1023)]
    /\ sf.node = W(1023)
    /\ sf.opts.startTime # Get(env.startTime)

\* C8: once the layout is accepted, New returns the start-time error exactly when
\* the start time is after the current wall-clock millisecond.
C8_StartTimeAfterNow ==
    err \notin {"pending", "bits"} =>
        (err = "startTime" <=> Lt(Epoch(now), Effective.startTime))

\* ------------------------------------------------------- the ID accessors

\* ID.Time: (int64(f) >> (nodeBits + seqBits)) + startTime
IDTime(f, o) == Add(Shr(f, U8(o.nodeBits + o.seqBits)), o.startTime)

\* ID.Node: int64(f) & nodeMask >> seqBits
IDNode(f, o) ==
    LET nodeMax  == Xor(MinusOne, Shl(MinusOne, o.nodeBits))
        nodeMask == Shl(nodeMax, o.seqBits)
    IN  Shr(And(f, nodeMask), o.seqBits)

\* ID.Seq: int64(f) & seqMask
IDSeq(f, o) ==
    LET seqMask == Xor(MinusOne, Shl(MinusOne, o.seqBits))
    IN  And(f, seqMask)

\* 0 <= t <= MaxTime()
InTimeField(t, o) == ~Lt(t, Zero) /\ ~Gt(t, MaxTime(o))

Bytes == 0 .. 255

\* encodeBase32Map = "ybndrfg8ejkmcpqxot1uwisza345h769", as bytes
encodeBase32Map ==
    <<121, 98, 110, 100, 114, 102, 103, 56, 101, 106, 107, 109, 99, 112, 113, 120,
      111, 116, 49, 117, 119, 105, 115, 122, 97, 51, 52, 53, 104, 55, 54, 57>>

\* encodeBase58Map = "123456789abcdefghijkmnopqrstuvwxyzABCDEFGHJKLMNPQRSTUVWXYZ", as bytes
encodeBase58Map ==
    <<49, 50, 51, 52, 53, 54, 55, 56, 57, 97, 98, 99, 100, 101, 102, 103, 104, 105,
      106, 107, 109, 110, 111, 112, 113, 114, 115, 116, 117, 118, 119, 120, 121, 122,
      65, 66, 67, 68, 69, 70, 71, 72, 74, 75, 76, 77, 78, 80, 81, 82, 83, 84, 85, 86,
      87, 88, 89, 90>>

\* the table init() leaves behind for an alphabet: a [256]byte starts all zero,
\* the first loop stores 0xFF at the indices below len(alphabet), the second
\* stores each symbol's digit at the symbol's byte value
DecodeMapOf(alphabet) ==
    [b \in Bytes |->
        IF \E i \in DOMAIN alphabet : alphabet[i] = b
        THEN (CHOOSE i \in DOMAIN alphabet : alphabet[i] = b) - 1
        ELSE IF b < Len(alphabet) THEN 255
        ELSE 0]

decodeBase32Map == DecodeMapOf(encodeBase32Map)

decodeBase58Map == DecodeMapOf(encodeBase58Map)

\* x * k on int64, wrapping, for a small k >= 0: shift and add
MulShifts[x \in Words, k \in Nat] ==
    IF k = 0 THEN Zero
    ELSE Add(IF k % 2 = 1 THEN x ELSE Zero, MulShifts[Shl(x, 1), k \div 2])

Mul(x, k) == MulShifts[x, k]

\* the loop of ParseBase32 from byte i on, with id accumulated so far
RECURSIVE ParseBase32From(_, _, _)
ParseBase32From(b, i, acc) ==
    IF i > Len(b) THEN [id |-> acc, err |-> "nil", by |-> "base32"]
    ELSE IF decodeBase32Map[b[i]] = 255
    THEN [id |-> MinusOne, err |-> "ErrInvalidBase32", by |-> "base32"]
    ELSE ParseBase32From(b, i + 1, Add(Mul(acc, 32), W(decodeBase32Map[b[i]])))

ParseBase32(b) == ParseBase32From(b, 1, Zero)

\* the loop of ParseBase58 from byte i on, with id accumulated so far
RECURSIVE ParseBase58From(_, _, _)
ParseBase58From(b, i, acc) ==
    IF i > Len(b) THEN [id |-> acc, err |-> "nil", by |-> "base58"]
    ELSE IF decodeBase58Map[b[i]] = 255
    THEN [id |-> MinusOne, err |-> "ErrInvalidBase58", by |-> "base58"]
    ELSE ParseBase58From(b, i + 1, Add(Mul(acc, 58), W(decodeBase58Map[b[i]])))

ParseBase58(b) == ParseBase58From(b, 1, Zero)

\* every byte slice of at most MaxLen bytes
Inputs == UNION {[1 .. n -> Bytes] : n \in 0 .. MaxLen}

InitParse ==
    /\ origin = Zero
    /\ regressed = FALSE
    /\ peer = NoPeer
    /\ target = Zero
    /\ input \in Inputs
    /\ parsed = NoParse
    /\ now = 0
    /\ env = NoEnv
    /\ ip = NoIP
    /\ options = ZeroOptions
    /\ err = "pending"
    /\ sf = NilSf
    /\ mu = 0
    /\ pc = [p \in Callers |-> "idle"]
    /\ elapsedTime = [p \in Callers |-> Zero]
    /\ id = [p \in Callers |-> Zero]
    /\ issued = <<>>

\* id, err := ParseBase32(input)
DoParseBase32 ==
    /\ parsed = NoParse
    /\ parsed' = ParseBase32(input)
    /\ UNCHANGED <<now, env, ip, options, sf, err, mu, pc, elapsedTime, id, issued, input, target, origin, regressed, peer>>

\* id, err := ParseBase58(input)
DoParseBase58 ==
    /\ parsed = NoParse
    /\ parsed' = ParseBase58(input)
    /\ UNCHANGED <<now, env, ip, options, sf, err, mu, pc, elapsedTime, id, issued, input, target, origin, regressed, peer>>

NextParse ==
    \/ DoParseBase32
    \/ DoParseBase58

SpecParse == InitParse /\ [][NextParse]_vars

\* byte c is a symbol of the alphabet
IsSymbol(c, alphabet) == \E i \in DOMAIN alphabet : alphabet[i] = c

\* the slice holds a byte that is no symbol of the alphabet
HasForeignByte(b, alphabet) == \E i \in DOMAIN b : ~IsSymbol(b[i], alphabet)

\* C10: ParseBase32 returns ErrInvalidBase32, and ParseBase58 ErrInvalidBase58,
\* for every input holding a byte that is no symbol of the decoder's alphabet.
C10_ForeignByteRejected ==
    /\ parsed.by = "base32" /\ HasForeignByte(input, encodeBase32Map)
          => parsed.err = "ErrInvalidBase32"
    /\ parsed.by = "base58" /\ HasForeignByte(input, encodeBase58Map)
          => parsed.err = "ErrInvalidBase58"


-----------------------------------------------------------------------------
\* Text encodings of an ID, and the round trip through the decoders

\* the largest of the small IDs the codec behaviours start from
MaxCodecID == 64

\* the left shifts that spread the small IDs over the 63 value bits
CodecShifts == {0, 5, 29, 57}

\* f / k and f % k for an int64 f >= 0 and a small k > 0, by long division from
\* bit i down; rem is the remainder so far and q the quotient bits so far
RECURSIVE DivModFrom(_, _, _, _, _)
DivModFrom(f, k, i, rem, q) ==
    IF i < 0 THEN [quot |-> q, rem |-> rem]
    ELSE LET r == 2 * rem + (IF i \in f THEN 1 ELSE 0)
         IN  IF r >= k THEN DivModFrom(f, k, i - 1, r - k, q \cup {i})
             ELSE DivModFrom(f, k, i - 1, r, q)

DivMod(f, k) == DivModFrom(f, k, SignBit - 1, 0, Zero)

\* the bytes b holds after the encoders' loop and the append that follows it:
\* the digits of f in base len(alphabet), least significant first
RECURSIVE EncodeDigits(_, _, _)
EncodeDigits(f, alphabet, b) ==
    LET dm == DivMod(f, Len(alphabet))
    IN  IF Lt(f, W(Len(alphabet))) THEN Append(b, alphabet[dm.rem + 1])
        ELSE EncodeDigits(dm.quot, alphabet, Append(b, alphabet[dm.rem + 1]))

\* the swap loop at the end of the encoders
Reverse(b) == [x \in 1 .. Len(b) |-> b[Len(b) + 1 - x]]

Mutant_Base32(f) == EncodeDigits(f, encodeBase32Map, <<>>)

\* ID.Base32(), for f >= 0
Base32(f) == Reverse(EncodeDigits(f, encodeBase32Map, <<>>))

\* ID.Base58(), for f >= 0
Base58(f) == Reverse(EncodeDigits(f, encodeBase58Map, <<>>))

\* IDs in [0, 2^63): the small ones, the small ones shifted up to the top
\* bits, every 2^k - 1, and the largest
CodecIDs ==
    {f \in {Shl(W(n), k) : n \in 0 .. MaxCodecID, k \in CodecShifts} : SignBit \notin f}
        \cup {Sub(Shl(One, k), One) : k \in 1 .. SignBit}

InitCodec ==
    /\ origin = Zero
    /\ regressed = FALSE
    /\ peer = NoPeer
    /\ target \in CodecIDs
    /\ input = <<>>
    /\ parsed = NoParse
    /\ now = 0
    /\ env = NoEnv
    /\ ip = NoIP
    /\ options = ZeroOptions
    /\ err = "pending"
    /\ sf = NilSf
    /\ mu = 0
    /\ pc = [p \in Callers |-> "idle"]
    /\ elapsedTime = [p \in Callers |-> Zero]
    /\ id = [p \in Callers |-> Zero]
    /\ issued = <<>>

\* id, err := ParseBase32([]byte(target.Base32()))
RoundTripBase32 ==
    /\ parsed = NoParse
    /\ input' = Base32(target)
    /\ parsed' = ParseBase32(input')
    /\ UNCHANGED <<now, env, ip, options, sf, err, mu, pc, elapsedTime, id, issued, target, origin, regressed, peer>>

\* id, err := ParseBase58([]byte(target.Base58()))
RoundTripBase58 ==
    /\ parsed = NoParse
    /\ input' = Base58(target)
    /\ parsed' = ParseBase58(input')
    /\ UNCHANGED <<now, env, ip, options, sf, err, mu, pc, elapsedTime, id, issued, target, origin, regressed, peer>>

NextCodec ==
    \/ RoundTripBase32
    \/ RoundTripBase58

SpecCodec == InitCodec /\ [][NextCodec]_vars

\* C11: for every ID in [0, 2^63), decoding the ID's Base32 text with
\* ParseBase32 gives the ID back with a nil error, and decoding its Base58 text
\* with ParseBase58 does the same.
C11_RoundTrip ==
    parsed.by \in {"base32", "base58"} => parsed.err = "nil" /\ parsed.id = target

\* the largest ID went through base 58, as eleven symbols
C11_Witness_MaxInt64 ==
    parsed.by = "base58" /\ target = MaxInt64 /\ Len(input) = 11 /\ parsed.id = target


-----------------------------------------------------------------------------
\* JSON decoding of an ID

\* the longest byte slice, apart from the examples, handed to UnmarshalJSON
MaxJSONLen == 4

\* the bytes of '"', '+', '-', '1', '3' and 'x'
Quote == 34

JSONBytes == {Quote, 43, 45, 49, 51, 120}

\* the inputs of TestUnmarshalJSON: "13587" in quotes, 1, and "invalid with
\* no closing quote
JSONExamples ==
    { <<34, 49, 51, 53, 56, 55, 34>>,
      <<49>>,
      <<34, 105, 110, 118, 97, 108, 105, 100>> }

JSONInputs == UNION {[1 .. n -> JSONBytes] : n \in 0 .. MaxJSONLen} \cup JSONExamples

\* b[from : to] of Go, on a sequence indexed from 1
Slice(b, from, to) == [i \in 1 .. to - from |-> b[from + i]]

\* byte c is one of '0' .. '9'
IsDigit(c) == c >= 48 /\ c <= 57

\* strconv.ParseUint(s, 10, 64), for the texts short enough never to leave
\* 64 bits: a syntax error on the empty text or on a byte that is no digit
ParseUint(s) ==
    LET Digits[i \in Nat, acc \in Words] ==
            IF i > Len(s) THEN acc
            ELSE Digits[i + 1, Add(Mul(acc, 10), W(s[i] - 48))]
    IN  IF Len(s) = 0 \/ \E i \in DOMAIN s : ~IsDigit(s[i])
        THEN [val |-> Zero, err |-> "ErrSyntax"]
        ELSE [val |-> Digits[1, Zero], err |-> "nil"]

\* strconv.ParseInt(s, 10, 64): an optional sign, then ParseUint
ParseInt(s) ==
    IF Len(s) = 0 THEN [val |-> Zero, err |-> "ErrSyntax"]
    ELSE LET signed == s[1] \in {43, 45}
             un     == ParseUint(IF signed THEN Slice(s, 1, Len(s)) ELSE s)
         IN  IF un.err # "nil" THEN un
             ELSE IF s[1] = 45 THEN [val |-> Sub(Zero, un.val), err |-> "nil"]
             ELSE un

Mutant_UnmarshalJSON(b, f) ==
    IF Len(b) < 3 \/ b[1] # Quote
    THEN [f |-> f, err |-> "JSONSyntaxError", original |-> b]
    ELSE LET i == ParseInt(Slice(b, 1, Len(b) - 1))
         IN  IF i.err # "nil" THEN [f |-> f, err |-> i.err, original |-> <<>>]
             ELSE [f |-> i.val, err |-> "nil", original |-> <<>>]

\* (*ID).UnmarshalJSON(b), f being the ID pointed to: the ID afterwards, the
\* error returned and, for a JSONSyntaxError, the bytes it carries
UnmarshalJSON(b, f) ==
    IF Len(b) < 3 \/ b[1] # Quote \/ b[Len(b)] # Quote
    THEN [f |-> f, err |-> "JSONSyntaxError", original |-> b]
    ELSE LET i == ParseInt(Slice(b, 1, Len(b) - 1))
         IN  IF i.err # "nil" THEN [f |-> f, err |-> i.err, original |-> <<>>]
             ELSE [f |-> i.val, err |-> "nil", original |-> <<>>]

\* the IDs the decoded-into variable holds beforehand
JSONTargets == {Zero, W(7)}

InitJSON ==
    /\ origin = Zero
    /\ regressed = FALSE
    /\ peer = NoPeer
    /\ target \in JSONTargets
    /\ input \in JSONInputs
    /\ parsed = NoParse
    /\ now = 0
    /\ env = NoEnv
    /\ ip = NoIP
    /\ options = ZeroOptions
    /\ err = "pending"
    /\ sf = NilSf
    /\ mu = 0
    /\ pc = [p \in Callers |-> "idle"]
    /\ elapsedTime = [p \in Callers |-> Zero]
    /\ id = [p \in Callers |-> Zero]
    /\ issued = <<>>

\* err := target.UnmarshalJSON(input); parsed keeps the error, the bytes it
\* carries and the ID held before the call
DoUnmarshalJSON ==
    /\ parsed = NoParse
    /\ LET r == UnmarshalJSON(input, target)
       IN  /\ target' = r.f
           /\ parsed' = [id |-> target, err |-> r.err, by |-> "json",
                         original |-> r.original]
    /\ UNCHANGED <<now, env, ip, options, sf, err, mu, pc, elapsedTime, id, issued, input, origin, regressed, peer>>

NextJSON == DoUnmarshalJSON

SpecJSON == InitJSON /\ [][NextJSON]_vars

\* the slice does not both start and end with a double quote
NotWrapped(b) == Len(b) = 0 \/ b[1] # Quote \/ b[Len(b)] # Quote

\* the slice is a non-empty run of decimal digits between two double quotes
QuotedDecimal(b) ==
    /\ Len(b) >= 3
    /\ b[1] = Quote
    /\ b[Len(b)] = Quote
    /\ \A i \in 2 .. Len(b) - 1 : IsDigit(b[i])

\* the number the decimal digits b[2 .. n] spell
DecimalValue(b) ==
    LET Value[n \in Nat] ==
            IF n < 2 THEN Zero ELSE Add(Mul(Value[n - 1], 10), W(b[n] - 48))
    IN  Value[Len(b) - 1]

\* C12: UnmarshalJSON on a byte slice not wrapped in a leading and a trailing
\* double quote returns a JSONSyntaxError carrying exactly the input bytes and
\* leaves the ID unchanged; on a quoted decimal integer it sets the ID to that
\* integer and returns nil.
C12_UnmarshalJSON ==
    parsed.by = "json" =>
        /\ NotWrapped(input) =>
              /\ parsed.err = "JSONSyntaxError"
              /\ parsed.original = input
              /\ target = parsed.id
        /\ QuotedDecimal(input) =>
              /\ parsed.err = "nil"
              /\ target = DecimalValue(input)

\* "13587" in quotes was decoded into an ID that held 7
C12_Witness_Quoted13587 ==
    /\ parsed.by = "json"
    /\ input = <<34, 49, 51, 53, 56, 55, 34>>
    /\ parsed.id = W(7)
    /\ target = W(13587)


-----------------------------------------------------------------------------
\* The sequence within one millisecond

\* the timestamp field of an ID: the bits above the node and sequence fields
TimestampField(f, o) == Shr(f, NotTimeBits(o))

\* the k-th returned ID is the first of its millisecond: no call came before
\* it, or the call before it read another elapsed time
FirstOfMillisecond(k) == k = 1 \/ issued[k].time # issued[k - 1].time

\* C14: two consecutive ID() calls that observe the same elapsed millisecond
\* return IDs with the same timestamp field and the same node field, the
\* second's sequence field being the first's plus one.
C14_SameMsNextSeq ==
    \A k \in Returned :
        k > 1 /\ issued[k].time = issued[k - 1].time =>
            /\ TimestampField(issued[k].id, sf.opts) = TimestampField(issued[k - 1].id, sf.opts)
            /\ IDNode(issued[k].id, sf.opts) = IDNode(issued[k - 1].id, sf.opts)
            /\ IDSeq(issued[k].id, sf.opts) = Add(IDSeq(issued[k - 1].id, sf.opts), One)

\* C15: under a clock that never moves backward, at most 2^seqBits of the IDs
\* returned by one instance carry the same timestamp field.
C15_AtMostSeqSpacePerMs ==
    \A k \in Returned :
        Cardinality({j \in Returned :
                        TimestampField(issued[j].id, sf.opts)
                            = TimestampField(issued[k].id, sf.opts)})
            <= 2 ^ sf.opts.seqBits

\* C16: the first ID of a millisecond, the very first ID of a fresh generator
\* included (even when the elapsed time it reads is 0), has sequence field 0.
C16_FirstOfMsHasSeqZero ==
    \A k \in Returned :
        FirstOfMillisecond(k) => IDSeq(issued[k].id, sf.opts) = Zero


-----------------------------------------------------------------------------
\* The stored last time

\* C17 as stated: no ID() call, whatever the clock does, leaves sf.time smaller
\* than it was.
C17_TimeNeverDecreases == [][~Lt(sf'.time, sf.time)]_vars

\* C17, amended: every ID() call stores the elapsed time it read, so that no
\* call leaves sf.time smaller than it was as long as the wall clock has not
\* been set back.
C17_TimeFollowsClock ==
    [][/\ \A p \in Callers :
             pc[p] = "assemble" /\ pc'[p] = "unlock" => sf'.time = elapsedTime[p]
       /\ ~regressed => ~Lt(sf'.time, sf.time)]_vars

\* two IDs were returned under a forward clock, the second in a later millisecond
C17_Witness_Advanced ==
    /\ ~regressed
    /\ Len(issued) >= 2
    /\ Lt(issued[1].time, issued[2].time)
    /\ sf.time = issued[2].time


-----------------------------------------------------------------------------
\* The critical section of ID()

\* the callers between sf.mu.Lock() and sf.mu.Unlock()
InCritical == {p \in Callers : pc[p] \in {"elapsed", "arbitrate", "spin", "assemble", "unlock"}}

\* C18: ID() reads the clock, updates (time, seq) and assembles the ID as one
\* atomic unit: at most one caller is between Lock and Unlock, the mutex is held
\* exactly while a caller is there (every path releases it), and the ID a call
\* is about to return is assembled from the (time, seq) pair that call wrote.
C18_AtomicID ==
    /\ Cardinality(InCritical) <= 1
    /\ \A p \in InCritical : mu = p
    /\ InCritical = {} => mu = 0
    /\ \A p \in Callers :
          pc[p] = "unlock" => id[p] = MakeID(sf) /\ sf.time = elapsedTime[p]

\* one caller is about to return its ID while another waits for the mutex
C18_Witness_Contended ==
    \E p, q \in Callers :
        /\ pc[p] = "unlock"
        /\ pc[q] = "lock"
        /\ Len(issued) >= 1

\* C19: every ID() call eventually returns, given a mutex that is granted
\* fairly and a clock that keeps advancing; and while a call is in flight some
\* caller can always take a step (no deadlock).
C19_EveryCallReturns ==
    /\ \A p \in Callers : (pc[p] # "idle") ~> (pc[p] = "idle")
    /\ [](InFlight # {} => ENABLED (\E p \in Callers : Lock(p) \/ Locked(p)))

\* a call returned although it had to wait for the mutex and its sequence wrapped
C19_Witness_Returned ==
    /\ Len(issued) >= 2
    /\ issued[1].by # issued[2].by
    /\ issued[2].seq = Zero
    /\ issued[2].time = issued[1].time


\* the fields of the generator that New sets and nothing is to change
Configuration(g) ==
    [node |-> g.node, startTime |-> g.opts.startTime, nodeBits |-> g.opts.nodeBits,
     seqBits |-> g.opts.seqBits, nodeMax |-> g.nodeMax, nodeMask |-> g.nodeMask,
     seqMask |-> g.seqMask]

\* C20: once New has returned, no step of any ID() call changes node,
\* startTime, nodeBits, seqBits, nodeMax, nodeMask or seqMask: a call changes
\* only time and seq.
C20_ConfigurationFrozen ==
    [][/\ Configuration(sf') = Configuration(sf)
       /\ sf'.opts = sf.opts]_vars

\* IDs were produced, time and seq have moved, and the node is the configured one
C20_Witness_Produced ==
    /\ Len(issued) >= 2
    /\ sf.time # Zero
    /\ sf.seq # Zero
    /\ sf.node = options.node


-----------------------------------------------------------------------------
\* The range of the IDs

\* the ID is not negative and its timestamp field is at most MaxTime()
InRange(f, o) == SignBit \notin f /\ ~Gt(TimestampField(f, o), MaxTime(o))

\* C22 as stated: every ID returned by ID() is non-negative and its timestamp
\* field does not exceed MaxTime(), for any clock value at or after the start
\* time.
C22_AlwaysInRange ==
    \A k \in Returned :
        ~Lt(issued[k].time, Zero) => InRange(issued[k].id, sf.opts)

\* C22, amended: every ID returned by ID() while the elapsed time is in
\* [0, MaxTime()], that is for a clock between the start time and Lifetime(),
\* is non-negative and its timestamp field does not exceed MaxTime().
C22_InRangeWithinLifetime ==
    \A k \in Returned :
        InTimeField(issued[k].time, sf.opts) => InRange(issued[k].id, sf.opts)

\* an ID of the default layout issued in the last millisecond of the lifetime:
\* its timestamp field is MaxTime() and its sign bit is clear
C22_Witness_LastMillisecond ==
    \E k \in Returned :
        /\ sf.opts.nodeBits = DefaultNodeBits
        /\ sf.opts.seqBits = DefaultSeqBits
        /\ issued[k].time = MaxTime(sf.opts)
        /\ TimestampField(issued[k].id, sf.opts) = MaxTime(sf.opts)
        /\ SignBit \notin issued[k].id


-----------------------------------------------------------------------------
\* Two generators on one clock

\* the layouts of the pairs: two small ones, and one whose widths add up to 256
PairLayouts == {<<1, 0>>, <<2, 1>>, <<2, 254>>}

\* the node ids of the two generators: equal, or different
PairNodes == {<<One, One>>, <<Zero, One>>, <<One, W(2)>>}

PairOptions ==
    UNION {[startTime : {One}, node : {n[1] : n \in PairNodes},
            nodeBits : {l[1]}, seqBits : {l[2]}] : l \in PairLayouts}

\* two generators New built from the same start time and widths, the second
\* with its own node id
InitPair ==
    /\ origin = Zero
    /\ regressed = FALSE
    /\ target = Zero
    /\ now \in 0 .. MaxNow
    /\ env = NoEnv
    /\ ip = NoIP
    /\ options \in PairOptions
    /\ err = NewSf(options, env, ip, now).err
    /\ err = "nil"
    /\ sf = NewSf(options, env, ip, now).sf
    /\ \E n \in PairNodes :
          LET second == NewSf([options EXCEPT !.node = n[2]], env, ip, now)
          IN  /\ n[1] = options.node
              /\ second.err = "nil"
              /\ peer = [NoPeer EXCEPT !.sf = second.sf]
    /\ mu = 0
    /\ pc = [p \in Callers |-> "idle"]
    /\ elapsedTime = [p \in Callers |-> Zero]
    /\ id = [p \in Callers |-> Zero]
    /\ issued = <<>>
    /\ input = <<>>
    /\ parsed = NoParse

\* the second generator's caller enters ID(), takes the mutex nobody else
\* asks for, and reads the clock
PeerElapsed ==
    /\ peer.pc = "idle"
    /\ Len(issued) + Cardinality(InFlight) + Len(peer.issued) < MaxCalls
    /\ peer' = [peer EXCEPT !.elapsedTime = ElapsedTimeAt(now, peer.sf.opts),
                            !.pc = "arbitrate"]
    /\ UNCHANGED <<now, env, ip, options, sf, err, mu, pc, elapsedTime, id, issued, input, parsed, target, origin, regressed>>

\* the if / else on sf.time == elapsedTime, in the second generator
PeerArbitrate ==
    /\ peer.pc = "arbitrate"
    /\ LET seq == NextSeq(peer.sf, peer.elapsedTime)
       IN  peer' = [peer EXCEPT !.sf.seq = seq,
                                !.pc = IF peer.sf.time = peer.elapsedTime /\ seq = Zero
                                       THEN "spin" ELSE "assemble"]
    /\ UNCHANGED <<now, env, ip, options, sf, err, mu, pc, elapsedTime, id, issued, input, parsed, target, origin, regressed>>

\* one test of the wait loop, and its body when the test holds, in the second
\* generator
PeerSpin ==
    /\ peer.pc = "spin"
    /\ peer' = IF Waiting(peer.sf, peer.elapsedTime)
               THEN [peer EXCEPT !.elapsedTime = ElapsedTimeAt(now, peer.sf.opts)]
               ELSE [peer EXCEPT !.pc = "assemble"]
    /\ UNCHANGED <<now, env, ip, options, sf, err, mu, pc, elapsedTime, id, issued, input, parsed, target, origin, regressed>>

\* the second generator stores the time, assembles the ID, unlocks and returns
PeerAssemble ==
    /\ peer.pc = "assemble"
    /\ LET g == [peer.sf EXCEPT !.time = peer.elapsedTime]
       IN  peer' = [peer EXCEPT !.sf = g,
                                !.issued = Append(peer.issued, MakeID(g)),
                                !.pc = "idle"]
    /\ UNCHANGED <<now, env, ip, options, sf, err, mu, pc, elapsedTime, id, issued, input, parsed, target, origin, regressed>>

\* one step of the ID() call on the second generator
PeerStep ==
    \/ PeerElapsed
    \/ PeerArbitrate
    \/ PeerSpin
    \/ PeerAssemble

\* a caller on each generator, and a clock that may be set back
NextPair ==
    \/ IDStep(1)
    \/ PeerStep
    \/ Tick
    \/ ClockBack

SpecPair == InitPair /\ [][NextPair]_vars

\* C23: two generators with the same start time, node bits and sequence bits
\* but different node ids never return equal IDs, whatever the clock does and
\* however their ID() calls interleave.
C23_DistinctNodesDistinctIDs ==
    sf.node # peer.sf.node =>
        \A i \in Returned : \A j \in DOMAIN peer.issued :
            issued[i].id # peer.issued[j]

\* two generators sharing one node id have returned the same ID
C23_SameNodeCollides ==
    /\ sf.node = peer.sf.node
    /\ \E i \in Returned : \E j \in DOMAIN peer.issued : issued[i].id = peer.issued[j]

====
